---- MODULE Spec2Model ----
(***************************************************************************)
(* Model of src/docker/main.py: a single-threaded watchdog that probes a   *)
(* list of (site, service) pairs, runs a remote command on every failed    *)
(* check, sends chat alerts and backs off its polling interval.            *)
(*                                                                         *)
(* Time is counted in whole seconds: a request that times out and a sleep  *)
(* take their seconds, every other call returns within the second.         *)
(* Strings of the environment are modelled by their truthiness (configured *)
(* and non-empty, or not), except the numeric variables, which carry their *)
(* parsed value.                                                           *)
(***************************************************************************)
EXTENDS Integers, Sequences, FiniteSets, TLC

VARIABLES
    env,               \* the process environment (os.getenv), fixed at start
    pc,                \* position of main(): start, tick, pairs, sleep, exited, crashed
    now,               \* time.time()
    current_time,      \* main: snapshot taken at the top of the while loop
    mappings,          \* main: the list parse_mappings returned
    idx,               \* main: position of `for pair in mappings`
    service_status,    \* main: dict pair -> bool
    next_checks,       \* main: dict pair -> time
    current_intervals, \* main: dict pair -> seconds
    attempt_counters,  \* main: dict pair -> int
    last,              \* observation of the most recent loop-body iteration
    failed_checks,     \* history: per pair, checks whose probe returned unreachable
    remediations,      \* history: per pair, calls of execute_ssh_command
    consecutive,       \* history: per pair, failed checks since the last successful one
    tick_probes,       \* history: per pair, calls of check_service in the current tick
    probe              \* a call of check_service on its own (SpecProbe)

vars == <<env, pc, now, current_time, mappings, idx, service_status, next_checks,
          current_intervals, attempt_counters, last, failed_checks,
          remediations, consecutive, tick_probes, probe>>

----------------------------------------------------------------------------
(* Bounds of the model *)

\* the monitoring loop starts no new tick after this time
MaxTime == 30
\* largest CHECK_ATTEMPTS / max_attempts drawn
MaxAttempts == 3

(* Program constants *)

\* time.sleep(5) at the bottom of the while loop
TickSleep == 5
\* requests.get(url, timeout=10)
RequestTimeout == 10

Min(a, b) == IF a <= b THEN a ELSE b

----------------------------------------------------------------------------
(* parse_mappings.  A mapping string is the sequence of its comma-separated *)
(* tokens; a token is a sequence of words, ":" and " " being words.         *)

Colons(tok) == {i \in 1..Len(tok) : tok[i] = ":"}

FirstColon(tok) == CHOOSE i \in Colons(tok) : \A j \in Colons(tok) : i <= j

RECURSIVE lstrip(_)
lstrip(ws) == IF ws # <<>> /\ Head(ws) = " " THEN lstrip(Tail(ws)) ELSE ws

RECURSIVE rstrip(_)
rstrip(ws) ==
    IF ws # <<>> /\ ws[Len(ws)] = " " THEN rstrip(SubSeq(ws, 1, Len(ws) - 1)) ELSE ws

strip(ws) == rstrip(lstrip(ws))

\* dc, srv = pair.split(':', 1); (dc.strip(), srv.strip())
split_pair(tok) ==
    LET i == FirstColon(tok)
    IN  <<strip(SubSeq(tok, 1, i - 1)), strip(SubSeq(tok, i + 1, Len(tok)))>>

RECURSIVE parse_mappings(_)
parse_mappings(tokens) ==
    IF tokens = <<>> THEN <<>>
    ELSE IF Colons(Head(tokens)) = {}
         THEN parse_mappings(Tail(tokens))
         ELSE <<split_pair(Head(tokens))>> \o parse_mappings(Tail(tokens))

----------------------------------------------------------------------------
(* The environments drawn *)

Sites == {<<"dc1">>, <<"dc2">>}
Services == {<<"api">>, <<"web">>}

TokA == <<"dc1", ":", "api">>
TokAPadded == <<" ", "dc1", ":", " ", "api">>
TokB == <<"dc2", ":", "web">>
TokNoColon == <<"dc2">>

MappingStrings ==
    { <<TokA>>, <<TokA, TokB>>, <<TokA, TokAPadded>>, <<TokA, TokNoColon, TokB>> }

RequiredVars == {"INTERVAL", "MAPPINGS", "TELEGRAM_BOT_TOKEN", "TELEGRAM_CHAT_ID", "COMMAND"}

\* {SITE}_SSH_HOST, _PORT, _USERNAME, _PASSWORD, _KEY_PATH: set or not;
\* PORT is "unset" (default 22), a number, or text int() rejects
SshFull    == [host |-> TRUE,  port |-> "unset", username |-> TRUE, password |-> TRUE,  key |-> TRUE]
SshNoHost  == [host |-> FALSE, port |-> "unset", username |-> TRUE, password |-> TRUE,  key |-> TRUE]
SshKeyOnly == [host |-> TRUE,  port |-> "unset", username |-> TRUE, password |-> FALSE, key |-> TRUE]
SshPwOnly  == [host |-> TRUE,  port |-> "unset", username |-> TRUE, password |-> TRUE,  key |-> FALSE]
SshPort0   == [host |-> TRUE,  port |-> "0",     username |-> TRUE, password |-> TRUE,  key |-> TRUE]
SshBadPort == [host |-> TRUE,  port |-> "abc",   username |-> TRUE, password |-> TRUE,  key |-> TRUE]

SshEnvs == {SshFull, SshNoHost, SshKeyOnly, SshPwOnly, SshPort0, SshBadPort}

Intervals == {5, 20}
MaxIntervals == {10, 20}
\* BACKOFF_FACTOR: 0 stands for a configured factor below 1.0
BackoffFactors == {0, 1, 2}
CheckAttempts == 0..MaxAttempts
\* CHECK_RETRY_DELAY: float() accepts a negative number
RetryDelays == {-1, 5}

\* the configuration the others vary
Reference ==
    [ missing           |-> {},
      INTERVAL          |-> 5,
      MAX_INTERVAL      |-> 20,
      BACKOFF_FACTOR    |-> 2,
      CHECK_ATTEMPTS    |-> MaxAttempts,
      CHECK_RETRY_DELAY |-> 5,
      MAPPINGS          |-> <<TokA>>,
      url               |-> [s \in Services |-> TRUE],
      ssh               |-> [d \in Sites |-> SshFull] ]

\* every environment varies one group of settings of the reference
Environments ==
    {[Reference EXCEPT !.missing = {v}] : v \in RequiredVars}
    \cup {[Reference EXCEPT !.INTERVAL = i, !.MAX_INTERVAL = m, !.BACKOFF_FACTOR = f] :
            i \in Intervals, m \in MaxIntervals, f \in BackoffFactors}
    \cup {[Reference EXCEPT !.CHECK_ATTEMPTS = a, !.CHECK_RETRY_DELAY = d] :
            a \in CheckAttempts, d \in RetryDelays}
    \cup {[Reference EXCEPT !.MAPPINGS = m, !.url = u] :
            m \in MappingStrings, u \in [Services -> BOOLEAN]}
    \cup {[Reference EXCEPT !.ssh = [d \in Sites |-> c]] : c \in SshEnvs}
    \cup {[Reference EXCEPT !.INTERVAL = 0, !.MAPPINGS = m] :
            m \in {<<TokA>>, <<TokA, TokAPadded>>}}

----------------------------------------------------------------------------
(* main: configuration, lines 161-193 *)

\* mutant: COMMAND is left out of the required variables
missing_without_command == env.missing \ {"COMMAND"}

\* missing = [var for var in required_vars if not os.getenv(var)]
missing == env.missing

base_interval == env.INTERVAL

max_interval == env.MAX_INTERVAL

\* if backoff_factor < 1.0: backoff_factor = 1.0
clamp_factor(f) == IF f < 1 THEN 1 ELSE f

backoff_factor == clamp_factor(env.BACKOFF_FACTOR)

check_attempts == env.CHECK_ATTEMPTS

check_retry_delay == env.CHECK_RETRY_DELAY

\* the keys of a dictionary comprehension over the list `pairs`
Keys(pairs) == {pairs[i] : i \in 1..Len(pairs)}

----------------------------------------------------------------------------
(* check_service *)

\* what one requests.get can do: a 2xx/3xx answer, another status, a transport
\* error at once, a transport error after the request timeout
Outcomes == {"ok", "bad_status", "conn_error", "timeout"}

Duration(o) == IF o = "timeout" THEN RequestTimeout ELSE 0

\* the rest of the for loop from `attempt` on; acc counts the requests made, the
\* sleeps taken and the seconds spent so far
RECURSIVE check_service_from(_, _, _, _, _)
check_service_from(responses, max_attempts, retry_delay, attempt, acc) ==
    IF attempt > max_attempts
    THEN [raised |-> FALSE, reachable |-> FALSE, response_time |-> 0,
          attempts |-> max_attempts, requests |-> acc.requests,
          sleeps |-> acc.sleeps, elapsed |-> acc.elapsed]
    ELSE LET o == responses[attempt]
             spent == acc.elapsed + Duration(o)
         IN  IF o = "ok"
             THEN [raised |-> FALSE, reachable |-> TRUE,
                   response_time |-> 1000 * Duration(o),
                   attempts |-> attempt, requests |-> acc.requests + 1,
                   sleeps |-> acc.sleeps, elapsed |-> spent]
             ELSE IF attempt < max_attempts
                  THEN IF retry_delay < 0
                       \* time.sleep raises ValueError outside the try block
                       THEN [raised |-> TRUE, reachable |-> FALSE, response_time |-> 0,
                             attempts |-> attempt, requests |-> acc.requests + 1,
                             sleeps |-> acc.sleeps, elapsed |-> spent]
                       ELSE check_service_from(responses, max_attempts, retry_delay,
                                attempt + 1,
                                [requests |-> acc.requests + 1,
                                 sleeps |-> acc.sleeps + 1,
                                 elapsed |-> spent + retry_delay])
                  ELSE check_service_from(responses, max_attempts, retry_delay,
                           attempt + 1,
                           [requests |-> acc.requests + 1,
                            sleeps |-> acc.sleeps,
                            elapsed |-> spent])

\* mutant: the loop runs over range(1, max_attempts), one attempt short
check_service_one_short(responses, max_attempts, retry_delay) ==
    check_service_from(responses, max_attempts - 1, retry_delay, 1,
                       [requests |-> 0, sleeps |-> 0, elapsed |-> 0])

check_service(responses, max_attempts, retry_delay) ==
    check_service_from(responses, max_attempts, retry_delay, 1,
                       [requests |-> 0, sleeps |-> 0, elapsed |-> 0])

----------------------------------------------------------------------------
(* get_ssh_config and the completeness test of main *)

\* int(os.getenv(f"{prefix}PORT", "22")) raises ValueError on text that is no number
port_raises(cfg) == cfg.port = "abc"

port_value(cfg) == IF cfg.port = "unset" THEN 22 ELSE 0

get_ssh_config(dc_name) ==
    LET cfg == env.ssh[dc_name]
    IN  [host |-> cfg.host, port |-> port_value(cfg), username |-> cfg.username,
         password |-> cfg.password, key |-> cfg.key]

\* mutant: any() in place of all()
any_value(dc_config) ==
    \/ dc_config.host
    \/ dc_config.port # 0
    \/ dc_config.username
    \/ dc_config.password
    \/ dc_config.key

\* all(dc_config.values())
all_values(dc_config) ==
    /\ dc_config.host
    /\ dc_config.port # 0
    /\ dc_config.username
    /\ dc_config.password
    /\ dc_config.key

\* what execute_ssh_command can return: (True, output) or (False, error)
SshOutcomes == {"executed", "failed"}

\* lines 92-123: the credential used, the value returned and the COMMAND_EXECUTED
\* entries logged, for an outcome of the session
execute_ssh_command(dc_config, outcome) ==
    [credential |-> IF dc_config.key THEN "key" ELSE "password",
     success    |-> outcome = "executed",
     audit      |-> IF outcome = "executed"
                    THEN <<[pair |-> TRUE, dc_host |-> TRUE, command |-> TRUE,
                            output |-> TRUE, status |-> "executed"]>>
                    ELSE <<>>]

\* the remote command of a failed check: skipped, or run with one of the outcomes
Remediations(dc_config) ==
    IF all_values(dc_config) THEN SshOutcomes ELSE {"skipped"}

----------------------------------------------------------------------------
(* send_telegram_alert *)

\* the POST answers ok, answers not ok, or fails in transport
Deliveries == {"ok", "not_ok", "error"}

send_telegram_alert(next_check, template, attempt_count, is_recovered, delivery) ==
    [template |-> template, next_check |-> next_check,
     attempt_count |-> attempt_count, is_recovered |-> is_recovered,
     delivery |-> delivery]

----------------------------------------------------------------------------
(* main: the status handling of one probed pair, lines 249-310.  A pair's   *)
(* state is [available, interval, counter]; the result is the new state and *)
(* the alerts sent.                                                         *)

\* new_interval = min(current_intervals[pair] * backoff_factor, max_interval)
next_interval(current, factor, max) == Min(current * factor, max)

\* the message of a failed check: first detection or repeated failure
failure_template(available) == IF available THEN "first" ELSE "repeat"

\* mutant: the recovery keeps the grown interval
on_success_keeps_interval(st, base, delivery) ==
    IF ~st.available
    THEN [state  |-> [available |-> TRUE, interval |-> st.interval, counter |-> 0],
          alerts |-> <<send_telegram_alert(st.interval, "recovered", st.counter, TRUE, delivery)>>]
    ELSE [state |-> st, alerts |-> <<>>]

\* mutant: the counter is reset before the recovery alert is built
on_success_resets_first(st, base, delivery) ==
    IF ~st.available
    THEN [state  |-> [available |-> TRUE, interval |-> base, counter |-> 0],
          alerts |-> <<send_telegram_alert(base, "recovered", 0, TRUE, delivery)>>]
    ELSE [state |-> st, alerts |-> <<>>]

\* mutant: recovery keeps the counter of failed checks
on_success_keeps_counter(st, base, delivery) ==
    IF ~st.available
    THEN [state  |-> [available |-> TRUE, interval |-> base, counter |-> st.counter],
          alerts |-> <<send_telegram_alert(base, "recovered", st.counter, TRUE, delivery)>>]
    ELSE [state |-> st, alerts |-> <<>>]

on_success(st, base, delivery) ==
    IF ~st.available
    THEN [state  |-> [available |-> TRUE, interval |-> base, counter |-> 0],
          alerts |-> <<send_telegram_alert(base, "recovered", st.counter, TRUE, delivery)>>]
    ELSE [state |-> st, alerts |-> <<>>]

\* mutant: an alert that was not delivered is posted a second time
on_failure_retries(st, factor, max, delivery) ==
    LET counter == st.counter + 1
        new_interval == next_interval(st.interval, factor, max)
        alert == send_telegram_alert(new_interval, failure_template(st.available),
                                     counter, FALSE, delivery)
    IN  [state  |-> [available |-> FALSE, interval |-> new_interval, counter |-> counter],
         alerts |-> IF delivery = "ok" THEN <<alert>> ELSE <<alert, alert>>]

on_failure(st, factor, max, delivery) ==
    LET counter == st.counter + 1
        new_interval == next_interval(st.interval, factor, max)
    IN  [state  |-> [available |-> FALSE, interval |-> new_interval, counter |-> counter],
         alerts |-> <<send_telegram_alert(new_interval, failure_template(st.available),
                                          counter, FALSE, delivery)>>]

\* mutant: the pair is rescheduled at the base interval, whatever its backoff
schedule_at_base(snapshot, interval) == snapshot + base_interval

\* next_checks[pair] = current_time + current_intervals[pair]
schedule(snapshot, interval) == snapshot + interval

----------------------------------------------------------------------------
(* Observation of one iteration of `for pair in mappings` *)

NoPair == <<>>

NoState ==
    [available |-> TRUE, interval |-> 0, counter |-> 0, failures |-> 0, next_check |-> 0]

NoCheck ==
    [kind |-> "none", pair |-> NoPair, snapshot |-> 0, pre |-> NoState,
     reachable |-> FALSE, attempts |-> 0, requests |-> 0,
     remediation |-> "none", alerts |-> <<>>, audit |-> <<>>, started_at |-> 0,
     done_at |-> 0]

PairState(pair) ==
    [available |-> service_status[pair], interval |-> current_intervals[pair],
     counter |-> attempt_counters[pair]]

\* the pair as the iteration found it, with the failed checks it has had in a row
Before(pair) ==
    [available |-> service_status[pair], interval |-> current_intervals[pair],
     counter |-> attempt_counters[pair], failures |-> consecutive[pair],
     next_check |-> next_checks[pair]]

Observe(kind, pair, r, remediation, alerts) ==
    [kind |-> kind, pair |-> pair, snapshot |-> current_time, pre |-> Before(pair),
     reachable |-> r.reachable, attempts |-> r.attempts, requests |-> r.requests,
     remediation |-> remediation, alerts |-> alerts,
     audit |-> IF remediation \in SshOutcomes
               THEN execute_ssh_command(get_ssh_config(pair[1]), remediation).audit
               ELSE <<>>,
     started_at |-> now, done_at |-> now + r.elapsed]

NoProbe ==
    [raised |-> FALSE, reachable |-> FALSE, response_time |-> 0, attempts |-> 0,
     requests |-> 0, sleeps |-> 0, elapsed |-> 0]

IdleProbe ==
    [phase |-> "idle", responses |-> <<>>, max_attempts |-> 0, retry_delay |-> 0,
     result |-> NoProbe]

----------------------------------------------------------------------------
(* main *)

Init ==
    /\ env \in Environments
    /\ pc = "start"
    /\ now = 0
    /\ current_time = 0
    /\ mappings = <<>>
    /\ idx = 0
    /\ service_status = <<>>
    /\ next_checks = <<>>
    /\ current_intervals = <<>>
    /\ attempt_counters = <<>>
    /\ last = NoCheck
    /\ failed_checks = <<>>
    /\ remediations = <<>>
    /\ consecutive = <<>>
    /\ tick_probes = <<>>
    /\ probe = IdleProbe

\* lines 161-207: required variables, configuration, the four dictionaries
Startup ==
    /\ pc = "start"
    /\ IF missing # {}
       THEN /\ pc' = "exited"
            /\ UNCHANGED <<mappings, service_status, next_checks, current_intervals,
                           attempt_counters, failed_checks, remediations, consecutive,
                           tick_probes>>
       ELSE /\ pc' = "tick"
            /\ mappings' = parse_mappings(env.MAPPINGS)
            /\ service_status' = [p \in Keys(mappings') |-> TRUE]
            /\ next_checks' = [p \in Keys(mappings') |-> 0]
            /\ current_intervals' = [p \in Keys(mappings') |-> base_interval]
            /\ attempt_counters' = [p \in Keys(mappings') |-> 0]
            /\ failed_checks' = [p \in Keys(mappings') |-> 0]
            /\ remediations' = [p \in Keys(mappings') |-> 0]
            /\ consecutive' = [p \in Keys(mappings') |-> 0]
            /\ tick_probes' = [p \in Keys(mappings') |-> 0]
    /\ UNCHANGED <<env, now, current_time, idx, last, probe>>

\* line 211: current_time = time.time()
TickStart ==
    /\ pc = "tick"
    /\ now <= MaxTime
    /\ current_time' = now
    /\ idx' = 1
    /\ pc' = IF mappings = <<>> THEN "sleep" ELSE "pairs"
    /\ tick_probes' = [p \in Keys(mappings) |-> 0]
    /\ UNCHANGED <<env, now, mappings, service_status, next_checks, current_intervals,
                   attempt_counters, last, failed_checks, remediations,
                   consecutive, probe>>

\* the for loop goes on to the next pair, or ends
Advance ==
    /\ idx' = idx + 1
    /\ pc' = IF idx >= Len(mappings) THEN "sleep" ELSE "pairs"

\* mutant: a pair is due only once its time has passed
due_after(pair) == current_time > next_checks[pair]

Due(pair) == ~(current_time < next_checks[pair])

HasUrl(pair) == env.url[pair[2]]

\* what check_service can return for the configured attempts and delay
ProbeResults ==
    {check_service(responses, check_attempts, check_retry_delay) :
        responses \in [1..MaxAttempts -> Outcomes]}

\* lines 217-218: the pair is not due
NotDue ==
    /\ pc = "pairs"
    /\ LET pair == mappings[idx]
       IN  /\ ~Due(pair)
           /\ last' = Observe("notdue", pair, NoProbe, "none", <<>>)
    /\ Advance
    /\ UNCHANGED <<env, now, current_time, mappings, service_status, next_checks,
                   current_intervals, attempt_counters, failed_checks,
                   remediations, consecutive, tick_probes, probe>>

\* mutant: a missing URL is handled as a failed probe
NoUrlAsFailure ==
    /\ pc = "pairs"
    /\ LET pair == mappings[idx]
       IN  /\ Due(pair)
           /\ ~HasUrl(pair)
           /\ service_status' = [service_status EXCEPT ![pair] = FALSE]
           /\ attempt_counters' = [attempt_counters EXCEPT ![pair] = @ + 1]
           /\ next_checks' =
                 [next_checks EXCEPT ![pair] = schedule(current_time, current_intervals[pair])]
           /\ last' = Observe("nourl", pair, NoProbe, "none", <<>>)
    /\ Advance
    /\ UNCHANGED <<env, now, current_time, mappings, current_intervals,
                   failed_checks, remediations, consecutive, tick_probes, probe>>

\* lines 220-226: no URL is configured for the service
NoUrl ==
    /\ pc = "pairs"
    /\ LET pair == mappings[idx]
       IN  /\ Due(pair)
           /\ ~HasUrl(pair)
           /\ next_checks' =
                 [next_checks EXCEPT ![pair] = schedule(current_time, current_intervals[pair])]
           /\ last' = Observe("nourl", pair, NoProbe, "none", <<>>)
    /\ Advance
    /\ UNCHANGED <<env, now, current_time, mappings, service_status, current_intervals,
                   attempt_counters, failed_checks, remediations, consecutive,
                   tick_probes, probe>>

\* lines 229-233 when time.sleep(retry_delay) raises inside check_service
ProbeRaises ==
    /\ pc = "pairs"
    /\ LET pair == mappings[idx]
       IN  /\ Due(pair)
           /\ HasUrl(pair)
           /\ \E r \in ProbeResults :
                     /\ r.raised
                     /\ now' = now + r.elapsed
                     /\ last' = Observe("raised", pair, r, "none", <<>>)
           /\ tick_probes' = [tick_probes EXCEPT ![pair] = @ + 1]
    /\ pc' = "crashed"
    /\ UNCHANGED <<env, current_time, mappings, idx, service_status, next_checks,
                   current_intervals, attempt_counters, failed_checks,
                   remediations, consecutive, probe>>

\* lines 229-269 and 313: the probe succeeds
CheckSuccess ==
    /\ pc = "pairs"
    /\ LET pair == mappings[idx]
       IN  /\ Due(pair)
           /\ HasUrl(pair)
           /\ \E r \in ProbeResults,
                 u \in {on_success(PairState(pair), base_interval, d) : d \in Deliveries} :
                     /\ ~r.raised
                     /\ r.reachable
                     /\ now' = now + r.elapsed
                     /\ service_status' = [service_status EXCEPT ![pair] = u.state.available]
                     /\ current_intervals' = [current_intervals EXCEPT ![pair] = u.state.interval]
                     /\ attempt_counters' = [attempt_counters EXCEPT ![pair] = u.state.counter]
                     /\ next_checks' =
                           [next_checks EXCEPT ![pair] = schedule(current_time, u.state.interval)]
                     /\ last' = Observe("success", pair, r, "none", u.alerts)
           /\ consecutive' = [consecutive EXCEPT ![pair] = 0]
           /\ tick_probes' = [tick_probes EXCEPT ![pair] = @ + 1]
    /\ Advance
    /\ UNCHANGED <<env, current_time, mappings, failed_checks, remediations, probe>>

\* lines 229-247, 270-313: the probe fails
CheckFailure ==
    /\ pc = "pairs"
    /\ LET pair == mappings[idx]
           dc_config == get_ssh_config(pair[1])
       IN  /\ Due(pair)
           /\ HasUrl(pair)
           /\ ~port_raises(env.ssh[pair[1]])
           /\ \E r \in ProbeResults, remediation \in Remediations(dc_config) :
               \E u \in {on_failure(PairState(pair), backoff_factor, max_interval, d) :
                           d \in Deliveries} :
                     /\ ~r.raised
                     /\ ~r.reachable
                     /\ now' = now + r.elapsed
                     /\ service_status' = [service_status EXCEPT ![pair] = u.state.available]
                     /\ current_intervals' = [current_intervals EXCEPT ![pair] = u.state.interval]
                     /\ attempt_counters' = [attempt_counters EXCEPT ![pair] = u.state.counter]
                     /\ next_checks' =
                           [next_checks EXCEPT ![pair] = schedule(current_time, u.state.interval)]
                     /\ last' = Observe("failure", pair, r, remediation, u.alerts)
                     /\ remediations' =
                           [remediations EXCEPT ![pair] =
                               @ + IF remediation = "skipped" THEN 0 ELSE 1]
           /\ failed_checks' = [failed_checks EXCEPT ![pair] = @ + 1]
           /\ consecutive' = [consecutive EXCEPT ![pair] = @ + 1]
           /\ tick_probes' = [tick_probes EXCEPT ![pair] = @ + 1]
    /\ Advance
    /\ UNCHANGED <<env, current_time, mappings, probe>>

\* lines 229-247, 270-275: the probe fails and get_ssh_config raises on the port
SshConfigRaises ==
    /\ pc = "pairs"
    /\ LET pair == mappings[idx]
       IN  /\ Due(pair)
           /\ HasUrl(pair)
           /\ port_raises(env.ssh[pair[1]])
           /\ \E r \in ProbeResults :
                     /\ ~r.raised
                     /\ ~r.reachable
                     /\ now' = now + r.elapsed
                     /\ last' = Observe("config_raised", pair, r, "none", <<>>)
           /\ attempt_counters' = [attempt_counters EXCEPT ![pair] = @ + 1]
           /\ failed_checks' = [failed_checks EXCEPT ![pair] = @ + 1]
           /\ consecutive' = [consecutive EXCEPT ![pair] = @ + 1]
           /\ tick_probes' = [tick_probes EXCEPT ![pair] = @ + 1]
    /\ pc' = "crashed"
    /\ UNCHANGED <<env, current_time, mappings, idx, service_status, next_checks,
                   current_intervals, remediations, probe>>

\* line 316: time.sleep(5)
Sleep ==
    /\ pc = "sleep"
    /\ now' = now + TickSleep
    /\ pc' = "tick"
    /\ UNCHANGED <<env, current_time, mappings, idx, service_status, next_checks,
                   current_intervals, attempt_counters, last, failed_checks,
                   remediations, consecutive, tick_probes, probe>>

Next ==
    \/ Startup
    \/ TickStart
    \/ NotDue
    \/ NoUrl
    \/ ProbeRaises
    \/ CheckSuccess
    \/ CheckFailure
    \/ SshConfigRaises
    \/ Sleep

Spec == Init /\ [][Next]_vars

----------------------------------------------------------------------------
(* check_service called on its own, with every input drawn *)

ProbeInputs ==
    [phase : {"ready"}, responses : [1..MaxAttempts -> Outcomes],
     max_attempts : (-1)..MaxAttempts, retry_delay : {-1, 0, 1, 5},
     result : {NoProbe}]

ProbeInit ==
    /\ env = Reference
    /\ pc = "probe"
    /\ now = 0
    /\ current_time = 0
    /\ mappings = <<>>
    /\ idx = 0
    /\ service_status = <<>>
    /\ next_checks = <<>>
    /\ current_intervals = <<>>
    /\ attempt_counters = <<>>
    /\ last = NoCheck
    /\ failed_checks = <<>>
    /\ remediations = <<>>
    /\ consecutive = <<>>
    /\ tick_probes = <<>>
    /\ probe \in ProbeInputs

ProbeCall ==
    /\ probe.phase = "ready"
    /\ probe' = [probe EXCEPT
                   !.phase = "done",
                   !.result = check_service(probe.responses, probe.max_attempts,
                                            probe.retry_delay)]
    /\ UNCHANGED <<env, pc, now, current_time, mappings, idx, service_status,
                   next_checks, current_intervals, attempt_counters, last,
                   failed_checks, remediations, consecutive, tick_probes>>

ProbeNext == ProbeCall

SpecProbe == ProbeInit /\ [][ProbeNext]_vars

----------------------------------------------------------------------------
(* Properties.  They are stated over the environment and the observation of *)
(* the latest iteration, not over the operators of the model.               *)

Probed == last.kind \in {"success", "failure"}

Recovered == last.kind = "success" /\ ~last.pre.available

\* check_service returned a result in the latest iteration, whether or not the
\* iteration then ran to its end
ProbeReturned == last.kind \in {"success", "failure", "config_raised"}

\* the factor the configuration gives BackoffPolicy
EffectiveFactor == IF env.BACKOFF_FACTOR < 1 THEN 1 ELSE env.BACKOFF_FACTOR

\* the site has host, user name, password, key path and a port that is not 0
SiteComplete(dc) ==
    LET c == env.ssh[dc]
    IN  c.host /\ c.username /\ c.password /\ c.key /\ c.port = "unset"

\* C1: a successful check of an Unavailable pair leaves current_interval at
\* base_interval, recovery_attempts at 0 and the pair Available, however many
\* failed checks came before and however large the interval had grown.
C1_RecoveryResets ==
    Recovered =>
        /\ current_intervals[last.pair] = env.INTERVAL
        /\ attempt_counters[last.pair] = 0
        /\ service_status[last.pair]

C1_Witness ==
    /\ Recovered
    /\ last.pre.failures >= 2
    /\ last.pre.interval > env.INTERVAL
    /\ current_intervals[last.pair] = env.INTERVAL

\* C2: recovery_attempts equals the number N of failed checks the pair has had
\* in a row; the successful check that follows sends exactly one recovery
\* alert, which carries N, and leaves recovery_attempts at 0.
C2_CounterCountsFailures ==
    /\ \A p \in DOMAIN attempt_counters : attempt_counters[p] = consecutive[p]
    /\ Recovered =>
          /\ Len(last.alerts) = 1
          /\ last.alerts[1].template = "recovered"
          /\ last.alerts[1].is_recovered
          /\ last.alerts[1].attempt_count = last.pre.failures
          /\ last.pre.failures >= 1
          /\ attempt_counters[last.pair] = 0

C2_Witness ==
    /\ Recovered
    /\ last.pre.failures = 2
    /\ last.alerts[1].attempt_count = 2
    /\ attempt_counters[last.pair] = 0

C4_IntervalWithinBounds ==
    \A p \in DOMAIN current_intervals :
        /\ env.INTERVAL <= current_intervals[p]
        /\ current_intervals[p] <= env.MAX_INTERVAL

\* C5 as claimed: a failed check leaves current_interval at or above the value
\* it had before the check, and at or below max_interval.
C5_BackoffMonotone ==
    last.kind = "failure" =>
        /\ current_intervals[last.pair] >= last.pre.interval
        /\ current_intervals[last.pair] <= env.MAX_INTERVAL

\* C6 as claimed: the next_check_at a probed check assigns is at or after the
\* time the check completed.
C6_NextCheckAfterCompletion ==
    Probed => next_checks[last.pair] >= last.done_at

\* C6 amended: the next_check_at a probed check assigns is the tick's snapshot
\* time, taken before the tick's first check, plus the pair's current_interval
\* after the check; the snapshot is never later than the check's completion.
C6_NextCheckFromSnapshot ==
    Probed =>
        /\ next_checks[last.pair] = last.snapshot + current_intervals[last.pair]
        /\ last.snapshot <= last.done_at

C6_Witness ==
    /\ Probed
    /\ next_checks[last.pair] = last.snapshot + current_intervals[last.pair]
    /\ next_checks[last.pair] < last.done_at

\* the first attempt of 1..n that is answered ok, 0 when there is none
FirstOk(responses, n) ==
    IF \E k \in 1..n : responses[k] = "ok"
    THEN CHOOSE k \in 1..n :
           responses[k] = "ok" /\ \A j \in 1..(k - 1) : responses[j] # "ok"
    ELSE 0

\* C7: when the first successful attempt is number k <= max_attempts,
\* check_service returns reachable with attempts_used = k after exactly k
\* requests; when all max_attempts attempts fail it returns
\* (false, 0, max_attempts); a failed status or a transport error never makes
\* it raise (only time.sleep does, on a negative retry_delay, and then after
\* failed attempts alone).
C7_ProberResult ==
    probe.phase = "done" =>
        LET r == probe.result
            k == FirstOk(probe.responses, probe.max_attempts)
        IN  /\ probe.retry_delay >= 0 => ~r.raised
            /\ r.raised =>
                  /\ r.requests < probe.max_attempts
                  /\ \A j \in 1..r.requests : probe.responses[j] # "ok"
            /\ (~r.raised /\ k >= 1) =>
                  /\ r.reachable
                  /\ r.attempts = k
                  /\ r.requests = k
            /\ (~r.raised /\ k = 0) =>
                  /\ ~r.reachable
                  /\ r.response_time = 0
                  /\ r.attempts = probe.max_attempts
                  /\ r.requests = IF probe.max_attempts > 0 THEN probe.max_attempts ELSE 0

C7_Witness ==
    /\ probe.phase = "done"
    /\ probe.max_attempts = 3
    /\ probe.responses[1] = "timeout"
    /\ probe.responses[2] = "ok"
    /\ probe.result.reachable
    /\ probe.result.attempts = 2
    /\ probe.result.requests = 2

\* C8 as claimed: a check whose probe returned sends at most one alert,
\* chosen by the pair's state before the check: Available and success, none
\* (interval and counter kept); Available and failure, one first-failure alert
\* carrying 1; Unavailable and failure, one still-down alert carrying the
\* incremented counter; Unavailable and success, one recovery alert.
C8_AlertPerTransition ==
    ProbeReturned =>
        /\ Len(last.alerts) <= 1
        /\ (last.reachable /\ last.pre.available) =>
              /\ last.alerts = <<>>
              /\ current_intervals[last.pair] = last.pre.interval
              /\ attempt_counters[last.pair] = last.pre.counter
              /\ attempt_counters[last.pair] = 0
        /\ (~last.reachable /\ last.pre.available) =>
              /\ Len(last.alerts) = 1
              /\ last.alerts[1].template = "first"
              /\ ~last.alerts[1].is_recovered
              /\ last.alerts[1].attempt_count = 1
        /\ (~last.reachable /\ ~last.pre.available) =>
              /\ Len(last.alerts) = 1
              /\ last.alerts[1].template = "repeat"
              /\ ~last.alerts[1].is_recovered
              /\ last.alerts[1].attempt_count = last.pre.counter + 1
              /\ last.alerts[1].attempt_count = attempt_counters[last.pair]
        /\ (last.reachable /\ ~last.pre.available) =>
              /\ Len(last.alerts) = 1
              /\ last.alerts[1].template = "recovered"
              /\ last.alerts[1].is_recovered

\* the pair the for loop is at is due and its service has no URL
AtPairWithoutUrl ==
    /\ pc = "pairs"
    /\ idx \in 1..Len(mappings)
    /\ current_time >= next_checks[mappings[idx]]
    /\ ~env.url[mappings[idx][2]]

\* C9: the iteration of a due pair without a URL makes no request, calls
\* neither the Remediator nor the Notifier, keeps available, current_interval
\* and recovery_attempts, and sets next_check_at to the tick's snapshot plus
\* the pair's current interval.
C9_NoUrlFrame ==
    [][AtPairWithoutUrl =>
          /\ last'.requests = 0
          /\ last'.remediation = "none"
          /\ last'.alerts = <<>>
          /\ now' = now
          /\ remediations' = remediations
          /\ failed_checks' = failed_checks
          /\ service_status' = service_status
          /\ current_intervals' = current_intervals
          /\ attempt_counters' = attempt_counters
          /\ next_checks' = [next_checks EXCEPT ![mappings[idx]] =
                                current_time + current_intervals[mappings[idx]]]]_vars

C9_Witness ==
    /\ last.kind = "nourl"
    /\ last.snapshot > 0
    /\ next_checks[last.pair] = last.snapshot + current_intervals[last.pair]
    /\ service_status[last.pair]

\* C10 as claimed: every check whose probe returned unreachable increments
\* recovery_attempts, sets current_interval to
\* min(current_interval * factor, max_interval), leaves the pair Unavailable,
\* sends exactly one alert and reschedules the pair, whatever became of the
\* remote command.
C10_FailureUpdate ==
    (ProbeReturned /\ ~last.reachable) =>
        /\ attempt_counters[last.pair] = last.pre.counter + 1
        /\ current_intervals[last.pair] =
              Min(last.pre.interval * EffectiveFactor, env.MAX_INTERVAL)
        /\ ~service_status[last.pair]
        /\ Len(last.alerts) = 1
        /\ next_checks[last.pair] = last.snapshot + current_intervals[last.pair]

\* the site has a host, a user name and at least one of password and key path,
\* and its port is left at the default
SiteHasCredential(dc) ==
    LET c == env.ssh[dc]
    IN  c.host /\ c.username /\ (c.password \/ c.key) /\ c.port = "unset"

\* C11 as claimed: a failed check of a pair whose site has a host, a user name
\* and either a key or a password (one of them is enough) invokes the remote
\* command; the command is skipped only for a site without host or without any
\* credential.
C11_RemediationWithEitherCredential ==
    (last.kind = "failure" /\ SiteHasCredential(last.pair[1])) =>
        last.remediation # "skipped"

\* C12 as claimed: every invocation of execute_ssh_command, whether it ran the
\* command or failed, logs exactly one structured audit entry, and the entry
\* of a failed invocation has a status that reflects the failure.
C12_AuditEntryPerInvocation ==
    (last.kind = "failure" /\ last.remediation \in SshOutcomes) =>
        /\ Len(last.audit) = 1
        /\ (last.remediation = "failed" => last.audit[1].status # "executed")

\* C13 as claimed: once the loop is entered no outcome of a probe, of a
\* remediation step (reading the site's remote-shell configuration included) or
\* of a notification stops it.
C13_LoopNeverStops == pc # "crashed"

\* C14: when one of INTERVAL, MAPPINGS, TELEGRAM_BOT_TOKEN, TELEGRAM_CHAT_ID and
\* COMMAND is absent at startup the process ends without entering the loop: no
\* tick is started, no pair is probed, no remote command is run and no alert is
\* sent, ever.
C14_MissingVariableEndsStartup ==
    env.missing # {} =>
        /\ pc \in {"start", "exited"}
        /\ last = NoCheck
        /\ mappings = <<>>
        /\ failed_checks = <<>>
        /\ remediations = <<>>
        /\ tick_probes = <<>>
        /\ now = 0

C14_Witness == pc = "exited" /\ env.missing # {}

\* C15: an alert that is not delivered (HTTP status not ok, or the post
\* raises) is posted once and not again, and the pair's state after the check
\* is what the probe result alone determines, the same as after a delivered
\* alert: available, current_interval, recovery_attempts, next_check_at.
C15_UndeliveredAlertChangesNothing ==
    (Probed /\ last.alerts # <<>> /\ last.alerts[1].delivery # "ok") =>
        LET p == last.pair
        IN  /\ Len(last.alerts) = 1
            /\ service_status[p] = last.reachable
            /\ attempt_counters[p] = IF last.reachable THEN 0 ELSE last.pre.counter + 1
            /\ current_intervals[p] =
                  IF last.reachable
                  THEN env.INTERVAL
                  ELSE Min(last.pre.interval * EffectiveFactor, env.MAX_INTERVAL)
            /\ next_checks[p] = last.snapshot + current_intervals[p]

C15_Witness ==
    /\ last.kind = "failure"
    /\ ~last.pre.available
    /\ Len(last.alerts) = 1
    /\ last.alerts[1].delivery = "error"
    /\ attempt_counters[last.pair] = 2
    /\ next_checks[last.pair] = last.snapshot + current_intervals[last.pair]

\* C16 as claimed: a pair is probed in a tick only if its next_check_at is not
\* after the tick's snapshot, and at most once in the tick, for every MAPPINGS
\* list the parser accepts (one that names a pair twice included) and every
\* INTERVAL startup accepts.
C16_ProbedOncePerTick ==
    /\ Probed => last.pre.next_check <= last.snapshot
    /\ \A p \in DOMAIN tick_probes : tick_probes[p] <= 1

C18_FirstAlertOnlyAfterCommand ==
    (last.kind = "failure" /\ last.alerts # <<>> /\ last.alerts[1].template = "first") =>
        last.remediation # "skipped"

\* C19: while the process runs, between the checks of a pair, the pair is
\* Available exactly when its recovery_attempts is 0, an Available pair has
\* current_interval = base_interval, and every recovery alert carries an
\* attempt count of at least 1.
C19_StateInvariants ==
    /\ pc \in {"tick", "pairs", "sleep"} =>
          \A p \in DOMAIN service_status :
              /\ service_status[p] <=> attempt_counters[p] = 0
              /\ service_status[p] => current_intervals[p] = env.INTERVAL
    /\ Recovered =>
          /\ Len(last.alerts) = 1
          /\ last.alerts[1].is_recovered
          /\ last.alerts[1].attempt_count >= 1

C19_Witness ==
    /\ Recovered
    /\ last.pre.counter >= 1
    /\ last.alerts[1].attempt_count = last.pre.counter
    /\ service_status[last.pair]
    /\ attempt_counters[last.pair] = 0
    /\ \E p \in DOMAIN service_status : ~service_status[p] /\ attempt_counters[p] >= 1

\* C20 as claimed: a pair is found unreachable only after at least one HTTP
\* attempt was made and failed in that check, and attempts_used is within
\* 1..max_attempts, for every integer CHECK_ATTEMPTS startup accepts, 0 and
\* negative values included.
C20_UnreachableAfterAttempt ==
    (ProbeReturned /\ ~last.reachable) =>
        /\ last.requests >= 1
        /\ last.attempts >= 1
        /\ last.attempts <= env.CHECK_ATTEMPTS

====
